---- MODULE Spec2Model ----
(***************************************************************************)
(* Wallet ledger service: WalletService.fund / withdraw / transfer running *)
(* as concurrent requests against MySQL (InnoDB) through knex              *)
(* transactions.                                                           *)
(*                                                                         *)
(* Numbers.  A JavaScript amount is modelled as an integer count of half   *)
(* micro-units (0.0000005), so that amounts with a seventh fractional      *)
(* digit exist; a DECIMAL(20,6) column value is an integer count of        *)
(* micro-units (0.000001).  parseFloat and toFixed(6) convert between the  *)
(* two.  A value that lies half-way between two micro-units stands for the *)
(* doubles next to that decimal, which toFixed(6) rounds up or down        *)
(* depending on the double's representation error: the rounding direction  *)
(* of such a value is a nondeterministic choice.                           *)
(*                                                                         *)
(* Storage.  A knex transaction's writes are staged in the request's pend  *)
(* field and reach the committed tables only at commit; a rejected promise *)
(* rolls them back.  SELECT ... FOR UPDATE waits for the row lock; an      *)
(* INSERT of a unique key waits for another transaction's uncommitted row  *)
(* with the same key.                                                      *)
(***************************************************************************)
EXTENDS Integers, Sequences, FiniteSets, TLC

NumProcs == 3
NumRefs == 2
MaxAmount == 3

Procs == 1..NumProcs
\* the slots of two requests running concurrently
TwoProcs == {1, 2}
Refs == 1..NumRefs
\* user ids, ordered by < as the code orders the id strings
Users == {1, 2, 3, 4}
\* users that have signed up when the service starts (each got a wallet)
Registered == {1, 2}
\* users that sign up at some time; user 4 never does
Members == {1, 2, 3}
\* amounts in half micro-units: -0.0000005, 0, 0.0000005, 0.000001, ...
Amounts == -1..MaxAmount

\* wallets       committed balance_decimal of each wallet, by owner
\* transactions  committed ledger rows, in commit order
\* transfers     committed transfer rows, in commit order
\* proc          the request slots: each running call with its transaction
\* returned      what the call that has just returned gave its caller
\* firstResult   by reference, the first committed call and its result
\* detail        whether returned and firstResult record arguments and results
\* users         committed user rows (a user is named by its id)
VARIABLES wallets, transactions, transfers, proc, returned, firstResult, detail,
          users

vars == <<wallets, transactions, transfers, proc, returned, firstResult, detail,
          users>>

-----------------------------------------------------------------------------
(* Number conversions *)

\* the numbers that are not finite: Infinity lies above and -Infinity below
\* every finite number of the model; NaN is a value apart, for which every
\* comparison is false
Infinity == 1000
NegInfinity == 0 - Infinity
NaN == 1001
NonFinite == {NaN, Infinity, NegInfinity}

\* x + y and x - y for a finite x
plus(x, y) == IF y \in NonFinite THEN y ELSE x + y
minus(x, y) ==
    IF y = NaN THEN NaN
    ELSE IF y = Infinity THEN NegInfinity
    ELSE IF y = NegInfinity THEN Infinity
    ELSE x - y

\* parseFloat of a DECIMAL(20,6) string: micro-units to half micro-units
parseFloat(dec) == 2 * dec

\* Number.prototype.toFixed(6): half micro-units to micro-units; up is the
\* direction a half-way value is rounded in.  A number that is not finite
\* gives "NaN", "Infinity" or "-Infinity", which here is the number itself.
toFixed(x, up) ==
    IF x \in NonFinite THEN x
    ELSE IF x % 2 = 0 THEN x \div 2
    ELSE IF up THEN (x \div 2) + 1 ELSE x \div 2

\* is the string a decimal number, which a DECIMAL(20,6) column takes
IsDecimal(dec) == dec \notin NonFinite

\* the error of MySQL (strict mode, the default of 8.4) for a string that is
\* no number in a DECIMAL column: "Incorrect decimal value"
IncorrectDecimalValue == "ER_TRUNCATED_WRONG_VALUE_FOR_FIELD"

\* toFixed(6) is a function of the number: within one call, x and y that are
\* the same number (balance + amount where the balance is 0, balance - amount
\* where the balance is twice the amount: both exact in binary floating
\* point) get the same string
toFixedAgrees(x, xDecimal, y, yDecimal) == x = y => xDecimal = yDecimal

-----------------------------------------------------------------------------
(* Schema constraints *)

\* wallets: CHECK (balance_decimal >= 0)
chk_wallet_balance_positive(balance_decimal) == balance_decimal >= 0

\* a variant of the transactions table without the CHECK
chk_transaction_amount_unchecked(amount_decimal) == TRUE

\* transactions: CHECK (amount_decimal > 0)
chk_transaction_amount_positive(amount_decimal) == amount_decimal > 0

\* transfers: CHECK (amount_decimal > 0)
chk_transfer_amount_positive(amount_decimal) == amount_decimal > 0

\* a variant without the unique key on transactions.reference
transactions_reference_not_unique(rows, reference) == TRUE

\* transactions.reference UNIQUE: may a row with this reference be added to rows
transactions_reference_unique(rows, reference) ==
    \A i \in 1..Len(rows) : rows[i].reference # reference

\* transfers.reference UNIQUE
transfers_reference_unique(rows, reference) ==
    \A i \in 1..Len(rows) : rows[i].reference # reference

-----------------------------------------------------------------------------
(* Rows and request records *)

NullWallet == [id |-> 0, user_id |-> 0, balance_decimal |-> 0]
NullTxn == [wallet_id |-> 0, type |-> "none", amount_decimal |-> 0,
            balance_after |-> 0, reference |-> 0]
NullTransfer == [from_wallet_id |-> 0, to_wallet_id |-> 0, amount_decimal |-> 0,
                 status |-> "none", reference |-> 0]

\* a wallet's id is modelled by its owner's id (one wallet per user)
WalletRow(u, balance) == [id |-> u, user_id |-> u, balance_decimal |-> balance]

NoPend == [transactions |-> <<>>, transfers |-> <<>>, balance |-> <<>>,
           users |-> {}, created |-> {}]
NoResult == [kind |-> "none"]

\* a request slot: the call's arguments, its position in the code, its
\* locals, the row locks its transaction holds and its staged writes
IdleProc == [pc |-> "idle", op |-> "none", userId |-> 0, toUserId |-> 0,
             amount |-> 0, amountDecimal |-> 0, reference |-> 0,
             replay |-> FALSE, held |-> {}, first |-> NullWallet,
             second |-> NullWallet, newBalance |-> 0,
             pend |-> NoPend]

\* the most recent return of a call: its arguments and what the caller got
NoReturn == [op |-> "none", userId |-> 0, toUserId |-> 0, amount |-> 0,
             reference |-> 0, replay |-> FALSE, inTransaction |-> FALSE,
             status |-> "none", err |-> "none", result |-> NoResult]

\* what is remembered of the first committed call with a reference
NoFirst == [op |-> "none", userId |-> 0, toUserId |-> 0, amount |-> 0,
            result |-> NoResult]

\* rows of a table whose reference is r, in table order
RowsByReference(rows, r) == SelectSeq(rows, LAMBDA row : row.reference = r)

\* is the reference r already committed, in the ledger or as a transfer
ReferenceCommitted(r) ==
    \/ \E i \in 1..Len(transactions) : transactions[i].reference = r
    \/ \E i \in 1..Len(transfers) : transfers[i].reference = r

Init ==
    /\ wallets = [u \in Registered |-> 0]
    /\ transactions = <<>>
    /\ transfers = <<>>
    /\ proc = [p \in Procs |-> IdleProc]
    /\ returned = NoReturn
    /\ firstResult = [r \in Refs |-> NoFirst]
    /\ detail = TRUE
    /\ users = Registered

-----------------------------------------------------------------------------
(* Storage: row locks, unique-key waits, commit and rollback *)

\* a variant in which the read takes no row lock
LockFree_unlocked(p, u) == TRUE

\* SELECT ... FOR UPDATE on u's wallet row must wait while another
\* transaction holds the row lock
LockFree(p, u) == \A q \in Procs \ {p} : u \notin proc[q].held

\* a variant in which the plain read asks for the row lock as well
ConsistentRead_for_update(p, u) == \A q \in Procs \ {p} : u \notin proc[q].held

\* a SELECT without FOR UPDATE on u's wallet row is a consistent read: it
\* takes no lock and never waits for one
ConsistentRead(p, u) == TRUE

\* an INSERT of reference r into transactions must wait while another
\* transaction holds an uncommitted row with that reference
TransactionKeyFree(p, r) ==
    \A q \in Procs \ {p} : transactions_reference_unique(proc[q].pend.transactions, r)

\* the same for the transfers table
TransferKeyFree(p, r) ==
    \A q \in Procs \ {p} : transfers_reference_unique(proc[q].pend.transfers, r)

\* a variant whose ledger keeps one row per wallet: a wallet's new entry
\* takes the place of its earlier ones
Applied_latest_entry_only(pend) ==
    LET written == {pend.transactions[i].wallet_id : i \in 1..Len(pend.transactions)} IN
    [wallets |-> [u \in DOMAIN wallets \cup pend.created |->
                    IF u \in DOMAIN pend.balance THEN pend.balance[u]
                    ELSE IF u \in DOMAIN wallets THEN wallets[u] ELSE 0],
     transactions |-> SelectSeq(transactions, LAMBDA row : row.wallet_id \notin written)
                      \o pend.transactions,
     transfers |-> transfers \o pend.transfers,
     users |-> users \cup pend.users]

\* the tables with a transaction's staged writes applied
Applied(pend) ==
    [wallets |-> [u \in DOMAIN wallets \cup pend.created |->
                    IF u \in DOMAIN pend.balance THEN pend.balance[u]
                    ELSE IF u \in DOMAIN wallets THEN wallets[u] ELSE 0],
     transactions |-> transactions \o pend.transactions,
     transfers |-> transfers \o pend.transfers,
     users |-> users \cup pend.users]

\* a variant that commits the staged writes although fn threw
withTransaction_commit_on_throw(pend, threw) == Applied(pend)

\* withTransaction: commit when fn resolves, roll back when it throws
withTransaction(pend, threw) ==
    IF threw
    THEN [wallets |-> wallets, transactions |-> transactions, transfers |-> transfers,
          users |-> users]
    ELSE Applied(pend)

\* the call me returns to its caller.  returned records the call and its
\* outcome; with detail off only the operation and the outcome's kind.
Return(me, inTransaction, threw, err, result) ==
    /\ returned' = IF detail
                   THEN [op |-> me.op, userId |-> me.userId, toUserId |-> me.toUserId,
                         amount |-> me.amount, reference |-> me.reference,
                         replay |-> me.replay, inTransaction |-> inTransaction,
                         status |-> IF threw THEN "failed" ELSE "done",
                         err |-> err, result |-> result]
                   ELSE [NoReturn EXCEPT !.op = me.op,
                                         !.inTransaction = inTransaction,
                                         !.status = IF threw THEN "failed" ELSE "done",
                                         !.err = err]
    /\ detail' = detail

\* a variant in which a rolled-back transaction keeps its row locks
Released_locks_kept_on_throw(me, threw) ==
    IF threw THEN [IdleProc EXCEPT !.held = me.held] ELSE IdleProc

\* the request slot after its transaction has ended: COMMIT and ROLLBACK
\* both release every row lock of the transaction
Released(me, threw) == IdleProc

\* the transaction of call me (slot p) ends: fn resolved with result, or
\* threw err; pend is what it has staged.  Its row locks are released.
End(p, me, pend, threw, err, result) ==
    LET after == withTransaction(pend, threw) IN
    /\ wallets' = after.wallets
    /\ transactions' = after.transactions
    /\ transfers' = after.transfers
    /\ users' = after.users
    /\ proc' = [proc EXCEPT ![p] = Released(me, threw)]
    /\ Return(me, TRUE, threw, err, result)
    /\ firstResult' = IF detail /\ ~threw /\ pend.transactions # <<>>
                      THEN [firstResult EXCEPT ![me.reference] =
                              [op |-> me.op, userId |-> me.userId,
                               toUserId |-> me.toUserId, amount |-> me.amount,
                               result |-> result]]
                      ELSE firstResult

\* the call me is rejected before withTransaction is entered; the
\* reference, which the call has not used yet, is not recorded
Reject(me, err) ==
    /\ Return([me EXCEPT !.reference = 0, !.replay = FALSE], FALSE, TRUE, err, NoResult)
    /\ UNCHANGED <<wallets, transactions, transfers, proc, firstResult, users>>

\* the transaction of slot p goes on; next is the slot's new content
Continue(p, next) ==
    /\ proc' = [proc EXCEPT ![p] = next]
    /\ UNCHANGED <<wallets, transactions, transfers, returned, firstResult, detail,
                   users>>

\* a call's arguments, as a request slot about to run
Call(op, userId, toUserId, amount, amountDecimal, reference) ==
    [IdleProc EXCEPT !.op = op, !.userId = userId, !.toUserId = toUserId,
                     !.amount = amount, !.amountDecimal = amountDecimal,
                     !.reference = reference,
                     !.replay = ReferenceCommitted(reference)]

-----------------------------------------------------------------------------
(* WalletService helpers *)

\* getWalletByUserId: the committed wallet row of the user, or null
getWalletByUserId(userId) ==
    IF userId \in DOMAIN wallets THEN WalletRow(userId, wallets[userId]) ELSE NullWallet

\* a variant that never finds the reference
checkIdempotency_never_found(reference) == NullTxn

\* a variant that answers with the oldest ledger row, whatever its reference
checkIdempotency_oldest_row(reference) ==
    IF transactions_reference_unique(transactions, reference) THEN NullTxn
    ELSE transactions[1]

\* checkIdempotency: the committed transaction row with the reference, or null
checkIdempotency(reference) ==
    IF transactions_reference_unique(transactions, reference) THEN NullTxn
    ELSE RowsByReference(transactions, reference)[1]

\* a variant that lets a zero amount through
AmountRejected_negative_only(amount) == amount < 0

\* "if (amount <= 0) throw" of fund, withdraw and transfer
AmountRejected(amount) == amount # NaN /\ amount <= 0

-----------------------------------------------------------------------------
(* Calls *)

\* Node runs one callback at a time: a call's return and the controller's
\* response to it are one microtask chain, which no other request's
\* callback interrupts
Ready == returned = NoReturn

\* request slots are interchangeable: a new call takes the lowest idle one
FreeSlot(p) ==
    /\ proc[p].pc = "idle"
    /\ \A q \in Procs : q < p => proc[q].pc # "idle"

\* references are opaque strings: the k-th distinct one ever seen by the
\* service is named k
ReferenceSeen(r) ==
    \/ ReferenceCommitted(r)
    \/ \E q \in Procs : proc[q].reference = r
NextReference(r) == \A k \in Refs : k < r => ReferenceSeen(k)

-----------------------------------------------------------------------------
(* WalletService.fund *)

\* the call up to the first await that another transaction can affect:
\* validation, withTransaction, the idempotency check and its short-circuit
FundCall(p, userId, amount, reference) ==
    LET me == Call("fund", userId, 0, amount, 0, reference)
        existingTxn == checkIdempotency(reference)
        wallet == getWalletByUserId(userId)
    IN
    /\ Ready /\ FreeSlot(p) /\ NextReference(reference)
    /\ IF AmountRejected(amount)
       THEN Reject(me, "InvalidAmount")
       ELSE IF existingTxn # NullTxn
       THEN /\ ConsistentRead(p, userId)
            /\ IF wallet = NullWallet
               THEN End(p, me, NoPend, TRUE, "WalletNotFound", NoResult)
               ELSE End(p, me, NoPend, FALSE, "none",
                        [kind |-> "entry", wallet |-> wallet,
                         transaction |-> existingTxn])
       ELSE Continue(p, [me EXCEPT !.pc = "lock"])

\* getWalletByUserId(userId, trx, true) and the not-found check
FundLock(p) ==
    LET me == proc[p]
        wallet == getWalletByUserId(me.userId)
    IN
    /\ Ready /\ me.pc = "lock" /\ me.op = "fund"
    /\ LockFree(p, me.userId)
    /\ IF wallet = NullWallet
       THEN End(p, me, me.pend, TRUE, "WalletNotFound", NoResult)
       ELSE Continue(p, [me EXCEPT !.pc = "insert", !.held = {me.userId},
                                   !.first = wallet])

\* amountDecimal, newBalance and trx("transactions").insert(...); upA and
\* upB are the rounding directions of the two toFixed(6) calls
FundInsert(p, upA, upB) ==
    LET me == proc[p]
        amountDecimal == toFixed(me.amount, upA)
        currentBalance == parseFloat(me.first.balance_decimal)
        newBalance == toFixed(plus(currentBalance, me.amount), upB)
        row == [wallet_id |-> me.first.id, type |-> "credit",
                amount_decimal |-> amountDecimal,
                balance_after |-> newBalance, reference |-> me.reference]
    IN
    /\ Ready /\ me.pc = "insert" /\ me.op = "fund"
    /\ IsDecimal(amountDecimal) => TransactionKeyFree(p, me.reference)
    /\ toFixedAgrees(me.amount, amountDecimal, plus(currentBalance, me.amount), newBalance)
    /\ IF ~IsDecimal(amountDecimal) \/ ~IsDecimal(newBalance)
       THEN End(p, me, me.pend, TRUE, IncorrectDecimalValue, NoResult)
       ELSE IF ~transactions_reference_unique(transactions, me.reference)
       THEN End(p, me, me.pend, TRUE, "ER_DUP_ENTRY", NoResult)
       ELSE IF ~chk_transaction_amount_positive(amountDecimal)
       THEN End(p, me, me.pend, TRUE, "ER_CHECK_CONSTRAINT_VIOLATED", NoResult)
       ELSE Continue(p, [me EXCEPT !.pc = "update",
                                   !.amountDecimal = amountDecimal,
                                   !.newBalance = newBalance,
                                   !.pend.transactions = Append(@, row)])

\* trx("wallets").update(...), the two fetches, commit and return
FundUpdate(p) ==
    LET me == proc[p]
        pend == [me.pend EXCEPT !.balance =
                    [u \in {me.first.id} |-> me.newBalance]]
    IN
    /\ Ready /\ me.pc = "update" /\ me.op = "fund"
    /\ IF ~chk_wallet_balance_positive(me.newBalance)
       THEN End(p, me, me.pend, TRUE, "ER_CHECK_CONSTRAINT_VIOLATED", NoResult)
       ELSE End(p, me, pend, FALSE, "none",
                [kind |-> "entry",
                 wallet |-> WalletRow(me.first.id, pend.balance[me.first.id]),
                 transaction |-> pend.transactions[1]])

-----------------------------------------------------------------------------
(* WalletService.withdraw *)

WithdrawCall(p, userId, amount, reference) ==
    LET me == Call("withdraw", userId, 0, amount, 0, reference)
        existingTxn == checkIdempotency(reference)
        wallet == getWalletByUserId(userId)
    IN
    /\ Ready /\ FreeSlot(p) /\ NextReference(reference)
    /\ IF AmountRejected(amount)
       THEN Reject(me, "InvalidAmount")
       ELSE IF existingTxn # NullTxn
       THEN /\ ConsistentRead(p, userId)
            /\ IF wallet = NullWallet
               THEN End(p, me, NoPend, TRUE, "WalletNotFound", NoResult)
               ELSE End(p, me, NoPend, FALSE, "none",
                        [kind |-> "entry", wallet |-> wallet,
                         transaction |-> existingTxn])
       ELSE Continue(p, [me EXCEPT !.pc = "lock"])

\* a variant without the balance check
InsufficientFunds_unchecked(currentBalance, amount) == FALSE

\* "if (currentBalance < amount) throw" of withdraw and transfer
InsufficientFunds(currentBalance, amount) == amount # NaN /\ currentBalance < amount

\* getWalletByUserId(userId, trx, true), the not-found and the balance check
WithdrawLock(p) ==
    LET me == proc[p]
        wallet == getWalletByUserId(me.userId)
        currentBalance == parseFloat(wallet.balance_decimal)
    IN
    /\ Ready /\ me.pc = "lock" /\ me.op = "withdraw"
    /\ LockFree(p, me.userId)
    /\ IF wallet = NullWallet
       THEN End(p, me, me.pend, TRUE, "WalletNotFound", NoResult)
       ELSE IF InsufficientFunds(currentBalance, me.amount)
       THEN End(p, [me EXCEPT !.first = wallet], me.pend, TRUE,
                "InsufficientFunds", NoResult)
       ELSE Continue(p, [me EXCEPT !.pc = "insert", !.held = {me.userId},
                                   !.first = wallet])

WithdrawInsert(p, upA, upB) ==
    LET me == proc[p]
        amountDecimal == toFixed(me.amount, upA)
        currentBalance == parseFloat(me.first.balance_decimal)
        newBalance == toFixed(minus(currentBalance, me.amount), upB)
        row == [wallet_id |-> me.first.id, type |-> "debit",
                amount_decimal |-> amountDecimal,
                balance_after |-> newBalance, reference |-> me.reference]
    IN
    /\ Ready /\ me.pc = "insert" /\ me.op = "withdraw"
    /\ IsDecimal(amountDecimal) => TransactionKeyFree(p, me.reference)
    /\ toFixedAgrees(me.amount, amountDecimal, minus(currentBalance, me.amount), newBalance)
    /\ IF ~IsDecimal(amountDecimal) \/ ~IsDecimal(newBalance)
       THEN End(p, me, me.pend, TRUE, IncorrectDecimalValue, NoResult)
       ELSE IF ~transactions_reference_unique(transactions, me.reference)
       THEN End(p, me, me.pend, TRUE, "ER_DUP_ENTRY", NoResult)
       ELSE IF ~chk_transaction_amount_positive(amountDecimal)
       THEN End(p, me, me.pend, TRUE, "ER_CHECK_CONSTRAINT_VIOLATED", NoResult)
       ELSE Continue(p, [me EXCEPT !.pc = "update",
                                   !.amountDecimal = amountDecimal,
                                   !.newBalance = newBalance,
                                   !.pend.transactions = Append(@, row)])

WithdrawUpdate(p) ==
    LET me == proc[p]
        pend == [me.pend EXCEPT !.balance =
                    [u \in {me.first.id} |-> me.newBalance]]
    IN
    /\ Ready /\ me.pc = "update" /\ me.op = "withdraw"
    /\ IF ~chk_wallet_balance_positive(me.newBalance)
       THEN End(p, me, me.pend, TRUE, "ER_CHECK_CONSTRAINT_VIOLATED", NoResult)
       ELSE End(p, me, pend, FALSE, "none",
                [kind |-> "entry",
                 wallet |-> WalletRow(me.first.id, pend.balance[me.first.id]),
                 transaction |-> pend.transactions[1]])

-----------------------------------------------------------------------------
(* WalletService.transfer *)

\* a variant without the self-transfer check
SelfTransfer_unchecked(fromUserId, toUserId) == FALSE

\* "if (fromUserId === toUserId) throw"
SelfTransfer(fromUserId, toUserId) == fromUserId = toUserId

\* a variant that locks the source wallet first, whatever the ids
lockOrder_source_first(fromUserId, toUserId) == <<fromUserId, toUserId>>

\* lockOrder: ascending by user id
lockOrder(fromUserId, toUserId) ==
    IF fromUserId < toUserId THEN <<fromUserId, toUserId>> ELSE <<toUserId, fromUserId>>

\* the committed transfer row with the reference, or null
existingTransferOf(reference) ==
    IF transfers_reference_unique(transfers, reference) THEN NullTransfer
    ELSE RowsByReference(transfers, reference)[1]

\* the wallet row with the given id, or null (trx("wallets").where({id}).first())
getWalletById(id) == getWalletByUserId(id)

\* a variant that checks the destination wallet before the source wallet
transferChecks_destination_first(fromWallet, toWallet, amount) ==
    IF toWallet = NullWallet THEN "DestinationWalletNotFound"
    ELSE IF fromWallet = NullWallet THEN "SourceWalletNotFound"
    ELSE IF InsufficientFunds(parseFloat(fromWallet.balance_decimal), amount)
    THEN "InsufficientFunds"
    ELSE "none"

\* the checks of transfer after both wallets are read: the error thrown, or
\* "none"
transferChecks(fromWallet, toWallet, amount) ==
    IF fromWallet = NullWallet THEN "SourceWalletNotFound"
    ELSE IF toWallet = NullWallet THEN "DestinationWalletNotFound"
    ELSE IF InsufficientFunds(parseFloat(fromWallet.balance_decimal), amount)
    THEN "InsufficientFunds"
    ELSE "none"

\* validation, withTransaction, the idempotency check on transfers and its
\* short-circuit
TransferCall(p, fromUserId, toUserId, amount, reference) ==
    LET me == Call("transfer", fromUserId, toUserId, amount, 0, reference)
        existingTransfer == existingTransferOf(reference)
    IN
    /\ Ready /\ FreeSlot(p) /\ NextReference(reference)
    /\ IF AmountRejected(amount)
       THEN Reject(me, "InvalidAmount")
       ELSE IF SelfTransfer(fromUserId, toUserId)
       THEN Reject(me, "SelfTransfer")
       ELSE IF existingTransfer # NullTransfer
       THEN /\ ConsistentRead(p, existingTransfer.from_wallet_id)
            /\ ConsistentRead(p, existingTransfer.to_wallet_id)
            /\ End(p, me, NoPend, FALSE, "none",
                   [kind |-> "transfer", transfer |-> existingTransfer,
                    fromWallet |-> getWalletById(existingTransfer.from_wallet_id),
                    toWallet |-> getWalletById(existingTransfer.to_wallet_id),
                    transactions |-> RowsByReference(transactions, reference)])
       ELSE Continue(p, [me EXCEPT !.pc = "lock1"])

\* getWalletByUserId(lockOrder[0], trx, true)
TransferLockFirst(p) ==
    LET me == proc[p]
        u == lockOrder(me.userId, me.toUserId)[1]
        wallet == getWalletByUserId(u)
    IN
    /\ Ready /\ me.pc = "lock1"
    /\ LockFree(p, u)
    /\ Continue(p, [me EXCEPT !.pc = "lock2", !.first = wallet,
                              !.held = IF wallet = NullWallet THEN {} ELSE {u}])

\* getWalletByUserId(lockOrder[1], trx, true), the mapping back to source
\* and destination, the not-found checks and the balance check
TransferLockSecond(p) ==
    LET me == proc[p]
        order == lockOrder(me.userId, me.toUserId)
        wallet == getWalletByUserId(order[2])
        fromWallet == IF me.userId = order[1] THEN me.first ELSE wallet
        toWallet == IF me.toUserId = order[1] THEN me.first ELSE wallet
        err == transferChecks(fromWallet, toWallet, me.amount)
        locked == [me EXCEPT !.second = wallet,
                             !.held = IF wallet = NullWallet THEN @ ELSE @ \cup {order[2]}]
    IN
    /\ Ready /\ me.pc = "lock2"
    /\ LockFree(p, order[2])
    /\ IF err # "none"
       THEN End(p, locked, me.pend, TRUE, err, NoResult)
       ELSE Continue(p, [locked EXCEPT !.pc = "record"])

\* a variant that inserts the transfer record as completed
insertedStatus_completed == "completed"

\* the status the transfer record is inserted with
insertedStatus == "pending"

\* amountDecimal and trx("transfers").insert({... status: "pending" ...})
TransferInsertRecord(p, upA) ==
    LET me == proc[p]
        amountDecimal == toFixed(me.amount, upA)
        row == [from_wallet_id |-> me.userId, to_wallet_id |-> me.toUserId,
                amount_decimal |-> amountDecimal, status |-> insertedStatus,
                reference |-> me.reference]
    IN
    /\ Ready /\ me.pc = "record"
    /\ IsDecimal(amountDecimal) => TransferKeyFree(p, me.reference)
    /\ IF ~IsDecimal(amountDecimal)
       THEN End(p, me, me.pend, TRUE, IncorrectDecimalValue, NoResult)
       ELSE IF ~transfers_reference_unique(transfers, me.reference)
       THEN End(p, me, me.pend, TRUE, "ER_DUP_ENTRY", NoResult)
       ELSE IF ~chk_transfer_amount_positive(amountDecimal)
       THEN End(p, me, me.pend, TRUE, "ER_CHECK_CONSTRAINT_VIOLATED", NoResult)
       ELSE Continue(p, [me EXCEPT !.pc = "entries",
                                   !.amountDecimal = amountDecimal,
                                   !.pend.transfers = Append(@, row)])

\* Promise.all of the two trx("transactions").insert(...), then the two
\* wallet updates, the status update, the fetches, commit and return.  The
\* statements of one transaction run one after the other on its connection:
\* the second insert meets the row the first one has just staged.
TransferInsertEntries(p, upF, upT) ==
    LET me == proc[p]
        fromWallet == IF me.userId = me.first.user_id THEN me.first ELSE me.second
        toWallet == IF me.toUserId = me.first.user_id THEN me.first ELSE me.second
        newFromBalance == toFixed(minus(parseFloat(fromWallet.balance_decimal), me.amount), upF)
        newToBalance == toFixed(plus(parseFloat(toWallet.balance_decimal), me.amount), upT)
        out == [wallet_id |-> fromWallet.id, type |-> "transfer-out",
                amount_decimal |-> me.amountDecimal,
                balance_after |-> newFromBalance, reference |-> me.reference]
        in == [wallet_id |-> toWallet.id, type |-> "transfer-in",
               amount_decimal |-> me.amountDecimal,
               balance_after |-> newToBalance, reference |-> me.reference]
        afterOut == Append(me.pend.transactions, out)
        afterIn == Append(afterOut, in)
        pend == [me.pend EXCEPT
                   !.transactions = afterIn,
                   !.balance = [u \in {fromWallet.id, toWallet.id} |->
                                  IF u = fromWallet.id THEN newFromBalance
                                  ELSE newToBalance],
                   !.transfers = <<[@[1] EXCEPT !.status = "completed"]>>]
    IN
    /\ Ready /\ me.pc = "entries"
    /\ TransactionKeyFree(p, me.reference)
    /\ toFixedAgrees(me.amount, me.amountDecimal,
                     minus(parseFloat(fromWallet.balance_decimal), me.amount), newFromBalance)
    /\ toFixedAgrees(me.amount, me.amountDecimal,
                     plus(parseFloat(toWallet.balance_decimal), me.amount), newToBalance)
    /\ IF \/ ~transactions_reference_unique(transactions \o me.pend.transactions,
                                            me.reference)
          \/ ~transactions_reference_unique(transactions \o afterOut, me.reference)
       THEN End(p, me, me.pend, TRUE, "ER_DUP_ENTRY", NoResult)
       ELSE IF ~chk_transaction_amount_positive(me.amountDecimal)
       THEN End(p, me, me.pend, TRUE, "ER_CHECK_CONSTRAINT_VIOLATED", NoResult)
       ELSE IF \/ ~chk_wallet_balance_positive(newFromBalance)
               \/ ~chk_wallet_balance_positive(newToBalance)
       THEN End(p, me, me.pend, TRUE, "ER_CHECK_CONSTRAINT_VIOLATED", NoResult)
       ELSE End(p, me, pend, FALSE, "none",
                [kind |-> "transfer", transfer |-> pend.transfers[1],
                 fromWallet |-> WalletRow(fromWallet.id, newFromBalance),
                 toWallet |-> WalletRow(toWallet.id, newToBalance),
                 transactions |-> RowsByReference(pend.transactions, me.reference)])

-----------------------------------------------------------------------------
(* WalletService.getBalance *)

\* the currency createWallet gives every wallet
currency == "NGN"

\* a variant that reads the balance which a running transaction holding the
\* wallet's lock has computed and is about to write
getBalance_uncommitted(userId) ==
    LET wallet == getWalletByUserId(userId)
        writers == {p \in Procs : userId \in proc[p].held /\ proc[p].pc = "update"}
        balance == IF writers = {} THEN wallet.balance_decimal
                   ELSE proc[CHOOSE p \in writers : TRUE].newBalance
    IN
    [kind |-> "balance", balance |-> balance, currency |-> currency, wallet |-> wallet]

\* what getBalance resolves with when the wallet exists
getBalance(userId) ==
    LET wallet == getWalletByUserId(userId) IN
    [kind |-> "balance", balance |-> wallet.balance_decimal,
     currency |-> currency, wallet |-> wallet]

\* getWalletByUserId(userId) on the pool (no transaction, no FOR UPDATE), the
\* not-found check and the return
GetBalance(userId) ==
    LET me == Call("getBalance", userId, 0, 0, 0, 0) IN
    /\ Ready
    /\ IF getWalletByUserId(userId) = NullWallet
       THEN Return(me, FALSE, TRUE, "WalletNotFound", NoResult)
       ELSE Return(me, FALSE, FALSE, "none", getBalance(userId))
    /\ UNCHANGED <<wallets, transactions, transfers, proc, firstResult, users>>

-----------------------------------------------------------------------------
(* AuthService.createUser *)

\* users.email UNIQUE: an INSERT of the user must wait while another
\* transaction holds an uncommitted row of that user
UserKeyFree(p, u) == \A q \in Procs \ {p} : u \notin proc[q].pend.users

\* emailExists / phoneExists, the blacklist check (flagged is its verdict)
\* and withTransaction
CreateUserCall(p, u, flagged) ==
    LET me == Call("createUser", u, 0, 0, 0, 0) IN
    /\ Ready /\ FreeSlot(p)
    /\ IF u \in users
       THEN Reject(me, "AlreadyRegistered")
       ELSE IF flagged
       THEN Reject(me, "Blacklisted")
       ELSE Continue(p, [me EXCEPT !.pc = "user"])

\* trx("users").insert(...) and the fetch of the created user
CreateUserInsert(p) ==
    LET me == proc[p] IN
    /\ Ready /\ me.pc = "user"
    /\ UserKeyFree(p, me.userId)
    /\ IF me.userId \in users
       THEN End(p, me, me.pend, TRUE, "ER_DUP_ENTRY", NoResult)
       ELSE Continue(p, [me EXCEPT !.pc = "wallet",
                                   !.pend.users = @ \cup {me.userId}])

\* WalletService.createWallet(userId, trx): a wallets row with balance
\* "0.000000" for the user (wallets.user_id is UNIQUE; the user id is new);
\* then commit and return
CreateUserWallet(p) ==
    LET me == proc[p]
        pend == [me.pend EXCEPT !.created = @ \cup {me.userId}]
    IN
    /\ Ready /\ me.pc = "wallet"
    /\ End(p, me, pend, FALSE, "none", [kind |-> "user", user |-> me.userId])

\* sign-ups of the users in S, run in the request slots P
Signup(P, S) ==
    \/ \E p \in P, u \in S, flagged \in BOOLEAN : CreateUserCall(p, u, flagged)
    \/ \E p \in P : CreateUserInsert(p)
    \/ \E p \in P : CreateUserWallet(p)

-----------------------------------------------------------------------------
(* Failures and responses *)

\* the storage layer fails the transaction (lock wait timeout, lost
\* connection): the pending statement rejects and fn throws
StorageFailure(p) ==
    /\ Ready /\ proc[p].pc # "idle"
    /\ End(p, proc[p], proc[p].pend, TRUE, "StorageFailure", NoResult)

\* the controller sends the response (res.json or next(error))
Respond ==
    /\ returned # NoReturn
    /\ returned' = NoReturn
    /\ UNCHANGED <<wallets, transactions, transfers, proc, firstResult, detail,
                   users>>

\* to an operation on one wallet the users that never sign up are alike:
\* among the user ids U, those that stand for them all
OneWallet(U) == U \cap Members

\* one step of the service, with calls drawn from the given request
\* slots, user ids, amounts and references
Step(P, U, A, R) ==
    \/ \E p \in P, u \in OneWallet(U), a \in A, r \in R : FundCall(p, u, a, r)
    \/ \E p \in P : FundLock(p)
    \/ \E p \in P, upA, upB \in BOOLEAN : FundInsert(p, upA, upB)
    \/ \E p \in P : FundUpdate(p)
    \/ \E p \in P, u \in OneWallet(U), a \in A, r \in R : WithdrawCall(p, u, a, r)
    \/ \E p \in P : WithdrawLock(p)
    \/ \E p \in P, upA, upB \in BOOLEAN : WithdrawInsert(p, upA, upB)
    \/ \E p \in P : WithdrawUpdate(p)
    \/ \E p \in P, u, v \in U, a \in A, r \in R : TransferCall(p, u, v, a, r)
    \/ \E p \in P : TransferLockFirst(p)
    \/ \E p \in P : TransferLockSecond(p)
    \/ \E p \in P, upA \in BOOLEAN : TransferInsertRecord(p, upA)
    \/ \E p \in P, upF, upT \in BOOLEAN : TransferInsertEntries(p, upF, upT)
    \/ \E u \in OneWallet(U) : GetBalance(u)
    \/ \E p \in P : StorageFailure(p)
    \/ Respond

\* one request at a time, every kind of argument
Next == Step({1}, Users, Amounts, Refs)

Spec == Init /\ [][Next]_vars

\* two funded wallets: each user has been credited 0.000002 once
InitFunded ==
    /\ wallets = [u \in Registered |-> 2]
    /\ transactions = <<[wallet_id |-> 1, type |-> "credit", amount_decimal |-> 2,
                         balance_after |-> 2, reference |-> 101],
                        [wallet_id |-> 2, type |-> "credit", amount_decimal |-> 2,
                         balance_after |-> 2, reference |-> 102]>>
    /\ transfers = <<>>
    /\ proc = [p \in Procs |-> IdleProc]
    /\ returned = NoReturn
    /\ firstResult = [r \in Refs |-> NoFirst]
    /\ detail = FALSE
    /\ users = Registered

\* concurrent requests of the two wallet owners, each for 0.000002 (a
\* wallet's whole seeded balance)
NextConcurrent == Step(TwoProcs, Registered, {4}, Refs)

SpecConcurrent == InitFunded /\ [][NextConcurrent]_vars

\* the amounts that are no finite number, and 0.000001
AmountsNonFinite == NonFinite \cup {2}

\* one request at a time, among the two wallet owners, with amounts that
\* are not finite
NextNonFinite == Step({1}, Registered, AmountsNonFinite, Refs)

SpecNonFinite == Init /\ [][NextNonFinite]_vars

\* nobody has signed up yet
InitSignup ==
    /\ wallets = <<>>
    /\ transactions = <<>>
    /\ transfers = <<>>
    /\ proc = [p \in Procs |-> IdleProc]
    /\ returned = NoReturn
    /\ firstResult = [r \in Refs |-> NoFirst]
    /\ detail = FALSE
    /\ users = {}

\* concurrent sign-ups, with funds of 0.000001 and balance reads for the
\* same users
NextSignup ==
    \/ Signup(TwoProcs, Members)
    \/ \E p \in TwoProcs, u \in Members, r \in Refs : FundCall(p, u, 2, r)
    \/ \E p \in TwoProcs : FundLock(p)
    \/ \E p \in TwoProcs, upA, upB \in BOOLEAN : FundInsert(p, upA, upB)
    \/ \E p \in TwoProcs : FundUpdate(p)
    \/ \E u \in Members : GetBalance(u)
    \/ \E p \in TwoProcs : StorageFailure(p)
    \/ Respond

SpecSignup == InitSignup /\ [][NextSignup]_vars

\* three funded wallets: each user has signed up and been credited 0.000002
InitLocks ==
    /\ wallets = [u \in Members |-> 2]
    /\ transactions = <<[wallet_id |-> 1, type |-> "credit", amount_decimal |-> 2,
                         balance_after |-> 2, reference |-> 101],
                        [wallet_id |-> 2, type |-> "credit", amount_decimal |-> 2,
                         balance_after |-> 2, reference |-> 102],
                        [wallet_id |-> 3, type |-> "credit", amount_decimal |-> 2,
                         balance_after |-> 2, reference |-> 103]>>
    /\ transfers = <<>>
    /\ proc = [p \in Procs |-> IdleProc]
    /\ returned = NoReturn
    /\ firstResult = [r \in Refs |-> NoFirst]
    /\ detail = FALSE
    /\ users = Members

\* as many concurrent transfers and funds as there are slots, among three
\* users, each for 0.000001 and all with one reference (a withdrawal takes
\* its one lock by the same statement as a fund)
NextLocks ==
    \/ \E p \in Procs, u, v \in Members : TransferCall(p, u, v, 2, 1)
    \/ \E p \in Procs : TransferLockFirst(p)
    \/ \E p \in Procs : TransferLockSecond(p)
    \/ \E p \in Procs, upA \in BOOLEAN : TransferInsertRecord(p, upA)
    \/ \E p \in Procs, upF, upT \in BOOLEAN : TransferInsertEntries(p, upF, upT)
    \/ \E p \in Procs, u \in Members : FundCall(p, u, 2, 1)
    \/ \E p \in Procs : FundLock(p)
    \/ \E p \in Procs, upA, upB \in BOOLEAN : FundInsert(p, upA, upB)
    \/ \E p \in Procs : FundUpdate(p)
    \/ Respond

SpecLocks == InitLocks /\ [][NextLocks]_vars

-----------------------------------------------------------------------------
(* Balances *)

\* the balances a transaction has computed for the wallets it holds: the ones
\* written into its staged entries and the ones staged for the wallet rows
StagedBalances(p) ==
    {proc[p].pend.transactions[i].balance_after : i \in 1..Len(proc[p].pend.transactions)}
    \cup {proc[p].pend.balance[u] : u \in DOMAIN proc[p].pend.balance}

\* C1: a wallet's balance is never negative, under any interleaving of
\* concurrent requests: neither a committed balance_decimal, nor a balance_after
\* recorded in the ledger, nor a balance that a running transaction has
\* computed for a wallet it has locked.
C1_BalanceNeverNegative ==
    /\ \A u \in DOMAIN wallets : wallets[u] >= 0
    /\ \A i \in 1..Len(transactions) : transactions[i].balance_after >= 0
    /\ \A p \in Procs : \A b \in StagedBalances(p) : b >= 0

\* a withdrawal is refused for insufficient funds on a wallet that a request
\* running concurrently with it has emptied, while a third request is under way
C1_Witness ==
    /\ returned.op = "withdraw" /\ returned.err = "InsufficientFunds"
    /\ \E u \in DOMAIN wallets : wallets[u] = 0
    /\ \E i \in 1..Len(transactions) : transactions[i].type = "debit"
    /\ \E p \in Procs : proc[p].pc # "idle"

\* the ledger entries of wallet u, in commit order
EntriesOf(rows, u) == SelectSeq(rows, LAMBDA row : row.wallet_id = u)

\* an entry's amount as a change of its wallet's balance
SignedAmount(row) ==
    IF row.type \in {"credit", "transfer-in"} THEN row.amount_decimal
    ELSE 0 - row.amount_decimal

RECURSIVE SumSigned(_)
SumSigned(rows) ==
    IF rows = <<>> THEN 0 ELSE SignedAmount(Head(rows)) + SumSigned(Tail(rows))

\* the balance_after of the wallet's last committed entry; 0 without entries
LastBalanceAfter(rows, u) ==
    LET mine == EntriesOf(rows, u) IN
    IF mine = <<>> THEN 0 ELSE mine[Len(mine)].balance_after

\* C2: in every committed state each wallet's balance is 0 plus its credit and
\* transfer-in amounts minus its debit and transfer-out amounts, and is the
\* balance_after of the wallet's most recently committed entry.
C2_BalanceIsLedgerSum ==
    \A u \in DOMAIN wallets :
        /\ wallets[u] = SumSigned(EntriesOf(transactions, u))
        /\ wallets[u] = LastBalanceAfter(transactions, u)

\* fund 0.000001 then fund 0.0000015 on one wallet: the entries record
\* 0.000001 and 0.000002, the balance is 0.000002
C2_Witness ==
    \E u \in DOMAIN wallets :
        LET mine == EntriesOf(transactions, u) IN
        /\ Len(mine) = 2
        /\ mine[1].type = "credit" /\ mine[1].amount_decimal = 1
        /\ mine[2].type = "credit" /\ mine[2].amount_decimal = 2
        /\ mine[2].balance_after = 2
        /\ wallets[u] = 2

-----------------------------------------------------------------------------
(* Idempotency *)

\* the committed tables
Committed == <<wallets, transactions, transfers, users>>

\* a fund or withdraw call whose reference was committed when it was made
EntryReplay(call) == call.replay /\ call.op \in {"fund", "withdraw"}

\* C3: re-invoking an operation with a reference that is already committed
\* applies nothing, however often it is repeated: the step in which the
\* replay returns leaves wallets, ledger and transfers as they were, and a
\* replayed fund or withdraw is answered from the idempotency check, never
\* going on to the statements that lock, insert and update.  (The replay of
\* a transfer is the call whose reference is in transfers.)
C3_ReplayAppliesNothing ==
    [][/\ (returned' # returned /\ returned'.replay) => Committed' = Committed
       /\ \A p \in Procs : ~EntryReplay(proc'[p])]_vars

\* a fund is replayed after its reference has committed, and gets the
\* committed entry back
C3_Witness ==
    /\ returned.op = "fund" /\ returned.replay /\ returned.status = "done"
    /\ returned.result.transaction.reference = returned.reference
    /\ Len(transactions) = 2

\* the replay repeats the first call: same operation, users and amount
SameRequest(call, first) ==
    /\ call.op = first.op /\ call.userId = first.userId
    /\ call.toUserId = first.toUserId /\ call.amount = first.amount

\* a successful replay of the call that first committed its reference
ReplayReturned ==
    /\ returned.replay /\ returned.status = "done"
    /\ SameRequest(returned, firstResult[returned.reference])

-----------------------------------------------------------------------------
(* Transfers *)

\* slot p returns in this step
Returns(p) == proc[p].pc # "idle" /\ proc'[p].pc = "idle"

\* slot p runs a transfer that has passed every check of the service (two
\* distinct users, both wallets found and locked, source balance >= amount,
\* transfer record staged) and whose reference is fresh
TransferDue(p) ==
    /\ proc[p].op = "transfer" /\ proc[p].pc = "entries"
    /\ ~ReferenceCommitted(proc[p].reference)

\* C5: a transfer between two distinct users whose wallets exist, with a fresh
\* reference and source balance >= amount, commits: the source balance goes
\* down by the amount, the destination balance up by it, and one completed
\* transfer record and two ledger entries (transfer-out on the source,
\* transfer-in on the destination) with the reference are persisted.
C5_TransferCommits ==
    [][\A p \in Procs :
        (TransferDue(p) /\ Returns(p) /\ returned'.err # "StorageFailure") =>
            LET me == proc[p]
                added == SubSeq(transactions', Len(transactions) + 1, Len(transactions'))
            IN
            /\ returned'.status = "done"
            /\ wallets'[me.userId] = wallets[me.userId] - me.amountDecimal
            /\ wallets'[me.toUserId] = wallets[me.toUserId] + me.amountDecimal
            /\ Len(RowsByReference(transfers', me.reference)) = 1
            /\ RowsByReference(transfers', me.reference)[1].status = "completed"
            /\ Len(added) = 2
            /\ \E i, j \in 1..2 :
                  /\ added[i].type = "transfer-out" /\ added[i].wallet_id = me.userId
                  /\ added[j].type = "transfer-in" /\ added[j].wallet_id = me.toUserId
                  /\ added[i].reference = me.reference
                  /\ added[j].reference = me.reference]_vars

\* a transfer of 0.000001 with a fresh reference from a wallet that holds it
\* fails on the ledger's unique reference, and nothing is committed
C5_Witness ==
    /\ returned.op = "transfer" /\ returned.err = "ER_DUP_ENTRY"
    /\ returned.amount = 2 /\ ~returned.replay
    /\ returned.userId \in DOMAIN wallets /\ returned.toUserId \in DOMAIN wallets
    /\ wallets[returned.userId] >= 1
    /\ transfers = <<>>
    /\ \A i \in 1..Len(transactions) : transactions[i].type = "credit"

\* the sum of all wallet balances
RECURSIVE SumBalances(_)
SumBalances(S) ==
    IF S = {} THEN 0
    ELSE LET u == CHOOSE x \in S : TRUE IN wallets[u] + SumBalances(S \ {u})

\* the committed credit and debit entries
CreditsAndDebits == SelectSeq(transactions, LAMBDA row : row.type \in {"credit", "debit"})

\* the committed transfer entries
TransferEntries ==
    SelectSeq(transactions, LAMBDA row : row.type \in {"transfer-out", "transfer-in"})

\* C6: transfers conserve value, so the total of all wallet balances changes
\* only by the amounts of committed credits and debits: starting from empty
\* wallets, the total is the sum of the credits minus the sum of the debits,
\* and the transfer entries add up to nothing.
C6_TotalIsCreditsMinusDebits ==
    /\ SumBalances(DOMAIN wallets) = SumSigned(CreditsAndDebits)
    /\ SumSigned(TransferEntries) = 0

-----------------------------------------------------------------------------
(* Lock waits *)

\* the wallet whose row lock slot p is about to request; 0 when it is not
\* at a SELECT ... FOR UPDATE
WantedLock(p) ==
    LET me == proc[p] IN
    IF me.pc = "lock" THEN me.userId
    ELSE IF me.pc = "lock1" THEN lockOrder(me.userId, me.toUserId)[1]
    ELSE IF me.pc = "lock2" THEN lockOrder(me.userId, me.toUserId)[2]
    ELSE 0

\* the transactions that hold the lock slot p is waiting for
WaitsOn(p) == {q \in Procs \ {p} : WantedLock(p) \in proc[q].held}

\* the slots reached from S along at most n waits
RECURSIVE Waited(_, _)
Waited(S, n) ==
    IF n = 0 THEN S ELSE Waited(S \cup UNION {WaitsOn(q) : q \in S}, n - 1)

\* no transaction waits, directly or through others, for itself
NoDeadlock == \A p \in Procs : p \notin Waited(WaitsOn(p), NumProcs)

\* slots p and q run transfers between the same two users in opposite
\* directions, with distinct references that nothing committed has used
Opposite(p, q) ==
    /\ p # q
    /\ proc[p].op = "transfer" /\ proc[q].op = "transfer"
    /\ proc[p].userId = proc[q].toUserId /\ proc[p].toUserId = proc[q].userId
    /\ proc[p].reference # proc[q].reference
    /\ ~ReferenceCommitted(proc[p].reference)
    /\ ~ReferenceCommitted(proc[q].reference)

\* C7: two concurrent transfers between the same two users in opposite
\* directions never deadlock, and each of them completes successfully unless
\* it fails with InsufficientFunds (a failure of the storage layer aside).
C7_OppositeTransfersComplete ==
    [][/\ NoDeadlock'
       /\ \A p, q \in Procs :
            (Opposite(p, q) /\ Returns(p)) =>
                returned'.err \in {"none", "InsufficientFunds", "StorageFailure"}]_vars

\* one of two opposite transfers waits for the wallet the other has locked
C7_Witness ==
    \E p, q \in Procs :
        /\ Opposite(p, q)
        /\ q \in WaitsOn(p)
        /\ proc[q].pc = "entries"

-----------------------------------------------------------------------------
(* Atomicity and failures *)

\* the committed state has no partial application: every wallet's balance is
\* the balance_after of its last entry (0 without entries), every transfer
\* record is completed and has its transfer-out entry on the source and its
\* transfer-in entry on the destination, and every transfer entry belongs to
\* a transfer record
NothingPartial ==
    /\ \A u \in DOMAIN wallets : wallets[u] = LastBalanceAfter(transactions, u)
    /\ \A i \in 1..Len(transfers) :
          LET t == transfers[i]
              rows == RowsByReference(transactions, t.reference)
          IN
          /\ t.status = "completed"
          /\ Len(rows) = 2
          /\ \E j, k \in 1..2 :
                /\ rows[j].type = "transfer-out" /\ rows[j].wallet_id = t.from_wallet_id
                /\ rows[k].type = "transfer-in" /\ rows[k].wallet_id = t.to_wallet_id
    /\ \A i \in 1..Len(transactions) :
          transactions[i].type \in {"transfer-out", "transfer-in"} =>
              ~transfers_reference_unique(transfers, transactions[i].reference)

\* C8: every operation is all-or-nothing: a call that fails, at whatever step
\* and for whatever reason, leaves wallets, ledger and transfers as committed
\* before it, and no committed state holds a partial application.
C8_AllOrNothing ==
    [][/\ (returned' # returned /\ returned'.status = "failed") => Committed' = Committed
       /\ NothingPartial']_vars

\* a transfer with an unused reference has staged its record and an entry,
\* failed, and left nothing behind
C8_Witness ==
    /\ returned.op = "transfer" /\ returned.status = "failed"
    /\ returned.inTransaction /\ returned.err = "ER_DUP_ENTRY"
    /\ returned.reference \in Refs /\ ~ReferenceCommitted(returned.reference)
    /\ NothingPartial

\* C9: a withdrawal of amount a from a wallet whose locked balance is b fails
\* with InsufficientFunds exactly when b < a, leaving wallets and ledger
\* unchanged; a withdrawal of a = b succeeds and leaves the balance 0 (a
\* failure of the storage layer aside).
C9_WithdrawChecksBalance ==
    [][\A p \in Procs :
        LET me == proc[p]
            failure == Returns(p) /\ returned'.err = "StorageFailure"
        IN
        /\ (/\ me.op = "withdraw" /\ me.pc = "lock" /\ proc'[p] # me
            /\ me.userId \in DOMAIN wallets /\ ~failure) =>
               LET b == parseFloat(wallets[me.userId]) IN
               /\ (Returns(p) /\ returned'.err = "InsufficientFunds") <=> b < me.amount
               /\ b < me.amount => Committed' = Committed
        /\ (/\ me.op = "withdraw" /\ me.pc = "update" /\ Returns(p) /\ ~failure
            /\ me.amount = parseFloat(me.first.balance_decimal)) =>
               /\ returned'.status = "done"
               /\ wallets'[me.userId] = 0]_vars

\* a withdrawal of exactly the balance has succeeded and left 0
C9_Witness ==
    /\ returned.op = "withdraw" /\ returned.status = "done" /\ ~returned.replay
    /\ returned.amount = parseFloat(returned.result.transaction.amount_decimal)
    /\ returned.result.wallet.balance_decimal = 0
    /\ wallets[returned.userId] = 0

\* C10: fund, withdraw and transfer called with amount <= 0 fail with
\* InvalidAmount ("Amount must be positive") before any transaction is
\* opened: wallets, ledger, transfers and the running transactions are as
\* before the call.
C10_InvalidAmountRejected ==
    [][(/\ returned' # returned /\ returned'.amount <= 0
        /\ returned'.op \in {"fund", "withdraw", "transfer"}) =>
          /\ returned'.status = "failed" /\ returned'.err = "InvalidAmount"
          /\ ~returned'.inTransaction
          /\ Committed' = Committed /\ proc' = proc]_vars

\* a transfer of amount 0 between two funded wallets has been rejected
C10_Witness ==
    /\ returned.op = "transfer" /\ returned.amount = 0
    /\ returned.err = "InvalidAmount"
    /\ returned.userId \in DOMAIN wallets /\ returned.toUserId \in DOMAIN wallets
    /\ wallets[returned.userId] > 0

-----------------------------------------------------------------------------
(* Rejections before the transaction *)

-----------------------------------------------------------------------------
(* Duplicate references *)

\* the unique key of the table that slot p's next insert goes to already
\* holds the slot's reference, committed
InsertMeetsReference(p) ==
    \/ /\ proc[p].pc \in {"insert", "entries"}
       /\ ~transactions_reference_unique(transactions, proc[p].reference)
    \/ /\ proc[p].pc = "record"
       /\ ~transfers_reference_unique(transfers, proc[p].reference)

\* C12: when the unique constraint rejects the insert of a ledger entry or a
\* transfer record because the reference already exists (the idempotency
\* check having missed it), the operation does not fail but returns the
\* existing record (a failure of the storage layer aside).
C12_DuplicateReferenceTranslated ==
    [][\A p \in Procs :
        (/\ InsertMeetsReference(p) /\ Returns(p)
         /\ returned'.err # "StorageFailure") => returned'.status = "done"]_vars

\* of two concurrent funds with one reference, the second has failed on the
\* unique reference after the first committed
C12_Witness ==
    /\ returned.op = "fund" /\ returned.err = "ER_DUP_ENTRY"
    /\ \E i \in 1..Len(transactions) :
          transactions[i].reference \in Refs /\ transactions[i].type = "credit"

\* C13: when requests with one reference run concurrently and pass the
\* idempotency check before either commits, the amount is applied at most
\* once and ledger and balances stay consistent: a reference has at most one
\* credit or debit entry, and every wallet's balance is the balance_after of
\* its last entry and the signed sum of its entries.
C13_ConcurrentDuplicateAppliedOnce ==
    /\ \A r \in Refs :
          Len(SelectSeq(CreditsAndDebits, LAMBDA row : row.reference = r)) <= 1
    /\ \A u \in DOMAIN wallets :
          /\ wallets[u] = LastBalanceAfter(transactions, u)
          /\ wallets[u] = SumSigned(EntriesOf(transactions, u))

\* two calls with one reference both passed the idempotency check; one has
\* committed its entry, the other has failed, and every request is finished
C13_Witness ==
    /\ returned.op \in {"fund", "withdraw"} /\ returned.err = "ER_DUP_ENTRY"
    /\ \A p \in Procs : proc[p].pc = "idle"
    /\ \E r \in Refs : Len(RowsByReference(transactions, r)) = 1

-----------------------------------------------------------------------------
(* Transfer status *)

\* the transfer rows a transaction other than p's can read
VisibleTransfers(p) == transfers

\* C14: every persisted transfer record is completed: the pending record a
\* transfer has inserted is visible to no other transaction, and a transfer
\* that fails persists no record, neither pending nor failed.  (The pending
\* record of a running transfer lives in its own transaction only; with the
\* ledger's unique reference no transfer gets as far as committing its
\* completed record, see C5.)
C14_PersistedTransfersCompleted ==
    \A p \in Procs : \A i \in 1..Len(VisibleTransfers(p)) :
        VisibleTransfers(p)[i].status = "completed"

\* a transfer has inserted its pending record while another request runs,
\* and the committed transfers table does not show it
C14_Witness ==
    \E p, q \in Procs :
        /\ p # q /\ proc[q].pc # "idle"
        /\ proc[p].pc = "entries"
        /\ proc[p].pend.transfers # <<>>
        /\ proc[p].pend.transfers[1].status = "pending"
        /\ transfers_reference_unique(VisibleTransfers(q), proc[p].reference)

-----------------------------------------------------------------------------
(* Reads *)

\* C15: getBalance returns the balance and currency of the user's wallet as
\* last committed, fails with WalletNotFound when the user has no wallet,
\* changes nothing, and takes no lock: it can return whenever the service
\* is ready to run a callback, whatever locks running transactions hold.
C15_GetBalanceReadsCommitted ==
    [][/\ (returned' # returned /\ returned'.op = "getBalance") =>
            LET u == returned'.userId IN
            /\ Committed' = Committed /\ proc' = proc
            /\ ~returned'.inTransaction
            /\ IF u \in DOMAIN wallets
               THEN /\ returned'.status = "done"
                    /\ returned'.result.balance = wallets[u]
                    /\ returned'.result.currency = "NGN"
                    /\ returned'.result.wallet = WalletRow(u, wallets[u])
               ELSE /\ returned'.status = "failed"
                    /\ returned'.err = "WalletNotFound"
       /\ \A u \in Members : Ready => ENABLED GetBalance(u)]_vars

\* getBalance has returned the committed balance of a wallet while a
\* withdrawal holding that wallet's lock is about to write a new balance
C15_Witness ==
    /\ returned.op = "getBalance" /\ returned.status = "done"
    /\ \E p \in Procs :
          /\ returned.userId \in proc[p].held
          /\ proc[p].pc = "update"
          /\ proc[p].newBalance # wallets[returned.userId]
    /\ returned.result.balance = wallets[returned.userId]

-----------------------------------------------------------------------------
(* Registration *)

\* C16: registration creates the user and one wallet with balance 0 in one
\* transaction: in every committed state the users are exactly the owners of
\* the wallets (wallets.user_id being unique, an owner has one wallet), and
\* the step that commits a new user commits that user's wallet, with
\* balance 0, and no other.
C16_OneWalletPerUser ==
    [][/\ DOMAIN wallets' = users'
       /\ \A u \in users' \ users :
            /\ u \notin DOMAIN wallets
            /\ wallets'[u] = 0
            /\ DOMAIN wallets' = DOMAIN wallets \cup {u}]_vars

\* a sign-up has committed while another sign-up has inserted its user row
\* and not yet its wallet
C16_Witness ==
    /\ returned.op = "createUser" /\ returned.status = "done"
    /\ users # {}
    /\ \E p \in Procs : proc[p].pc = "wallet" /\ proc[p].userId \notin users

-----------------------------------------------------------------------------
(* Exclusive wallet locks *)

\* the balance of wallet u that slot p read when it locked the row
LockedBalance(p, u) ==
    IF proc[p].first.user_id = u THEN proc[p].first.balance_decimal
    ELSE proc[p].second.balance_decimal

\* C17: from the moment an operation has read a wallet's balance under the
\* exclusive lock until its transaction ends, no other operation reads that
\* balance for update or writes it: no two transactions hold one wallet's
\* lock, the balance a transaction read under the lock is still the
\* committed one, and so no update is lost: every wallet's balance is the
\* signed sum of all its committed entries.
C17_NoInterleavedReadModifyWrite ==
    /\ \A p, q \in Procs : p # q => proc[p].held \cap proc[q].held = {}
    /\ \A p \in Procs : \A u \in proc[p].held : LockedBalance(p, u) = wallets[u]
    /\ \A u \in DOMAIN wallets : wallets[u] = SumSigned(EntriesOf(transactions, u))

\* a fund or withdraw waits for the lock of a wallet on which another one,
\* with another reference, has computed the new balance and not yet written it
C17_Witness ==
    \E p, q \in Procs :
        /\ q \in WaitsOn(p)
        /\ proc[p].op \in {"fund", "withdraw"} /\ proc[q].op \in {"fund", "withdraw"}
        /\ proc[p].userId = proc[q].userId
        /\ proc[p].reference # proc[q].reference
        /\ proc[q].pc = "update"

-----------------------------------------------------------------------------
(* Lock order *)

\* the transactions whose uncommitted row holds the unique key that slot p's
\* next insert needs
KeyWaitsOn(p) ==
    {q \in Procs \ {p} :
        \/ /\ proc[p].pc \in {"insert", "entries"}
           /\ ~transactions_reference_unique(proc[q].pend.transactions, proc[p].reference)
        \/ /\ proc[p].pc = "record"
           /\ ~transfers_reference_unique(proc[q].pend.transfers, proc[p].reference)
        \/ /\ proc[p].pc = "user"
           /\ proc[p].userId \in proc[q].pend.users}

\* the slots reached from S along at most n waits for a row lock or a key
RECURSIVE WaitedAny(_, _)
WaitedAny(S, n) ==
    IF n = 0 THEN S
    ELSE WaitedAny(S \cup UNION {WaitsOn(q) \cup KeyWaitsOn(q) : q \in S}, n - 1)

-----------------------------------------------------------------------------
(* Missing wallets *)

-----------------------------------------------------------------------------
(* Order of writes *)

\* C20: the writes of an operation come in a fixed order.  A fund or withdraw
\* inserts its ledger entry before it updates the balance: its entry is in
\* place, and no balance written, when it reaches the update that it commits
\* with.  A transfer inserts its record, as pending, before any ledger entry
\* and any balance update, and before that writes nothing; completed is set
\* only after those.  (No transfer gets past its ledger entries, see C5.)
C20_WritesInOrder ==
    [][\A p \in Procs :
        LET me == proc'[p] IN
        /\ me.pend.balance = <<>>
        /\ (/\ proc[p].op \in {"fund", "withdraw"} /\ Returns(p)
            /\ returned'.status = "done" /\ ~proc[p].replay) =>
               /\ proc[p].pc = "update"
               /\ Len(proc[p].pend.transactions) = 1
               /\ transactions' = transactions \o proc[p].pend.transactions
               /\ wallets'[proc[p].userId] = proc[p].pend.transactions[1].balance_after
        /\ (me.op \in {"fund", "withdraw"} /\ me.pc \in {"lock", "insert"}) =>
               me.pend = NoPend
        /\ (me.op = "transfer" /\ me.pc \in {"lock1", "lock2", "record"}) =>
               me.pend = NoPend
        /\ (me.op = "transfer" /\ me.pc = "entries") =>
               /\ Len(me.pend.transfers) = 1
               /\ me.pend.transfers[1].status = "pending"
               /\ me.pend.transactions = <<>>]_vars

\* a withdrawal has inserted its entry and not yet written the balance
C20_Witness ==
    \E p \in Procs :
        /\ proc[p].op = "withdraw" /\ proc[p].pc = "update"
        /\ Len(proc[p].pend.transactions) = 1
        /\ proc[p].pend.transactions[1].balance_after # wallets[proc[p].userId]

-----------------------------------------------------------------------------
(* Returned entries *)

\* the entries a call got back, as a list; empty when it got none
ReturnedEntries(ret) ==
    IF ret.result.kind = "transfer" THEN ret.result.transactions ELSE <<>>

\* C21: a transfer gives its caller the two ledger entries, the transfer-out
\* entry first and the transfer-in entry second: a first invocation that has
\* passed every check and staged its record (a failure of the storage layer
\* aside), and every transfer that returns a result, the replay included.
C21_TransferReturnsOutThenIn ==
    [][\A p \in Procs :
        (/\ proc[p].op = "transfer" /\ Returns(p)
         /\ returned'.err # "StorageFailure"
         /\ TransferDue(p) \/ returned'.status = "done") =>
            LET entries == ReturnedEntries(returned') IN
            /\ Len(entries) = 2
            /\ entries[1].type = "transfer-out"
            /\ entries[2].type = "transfer-in"]_vars

\* a transfer of 0.000001 that passed every check has returned no entries
\* but the ledger's duplicate-key error
C21_Witness ==
    /\ returned.op = "transfer" /\ returned.inTransaction
    /\ returned.err = "ER_DUP_ENTRY"
    /\ ReturnedEntries(returned) = <<>>
    /\ returned.amount = 2

-----------------------------------------------------------------------------
(* Reference uniqueness *)

\* no two rows of the table carry one reference
ReferencesDistinct(rows) ==
    \A i, j \in 1..Len(rows) : rows[i].reference = rows[j].reference => i = j

\* C22: in every committed state no two ledger entries carry the same
\* reference and no two transfer records carry the same reference, whatever
\* requests run concurrently with whatever references.  (For the two entries
\* of one transfer this is what makes the transfer fail, see C5.)
C22_ReferencesUnique ==
    /\ ReferencesDistinct(transactions)
    /\ ReferencesDistinct(transfers)

\* every reference is committed once, and a concurrent call that had passed
\* the idempotency check with one of them has been refused by the unique key
C22_Witness ==
    /\ \A r \in Refs : Len(RowsByReference(transactions, r)) = 1
    /\ returned.err = "ER_DUP_ENTRY"
    /\ returned.op \in {"fund", "withdraw"}

-----------------------------------------------------------------------------
(* The ledger is append-only *)

\* C23: a committed ledger entry is never modified or removed by a later
\* fund, withdraw, transfer or replay: in every step the committed entries
\* stay where they are with all their fields, and new ones are added after
\* them.
C23_LedgerOnlyGrows ==
    [][/\ Len(transactions') >= Len(transactions)
       /\ SubSeq(transactions', 1, Len(transactions)) = transactions]_vars

\* a wallet has a credit and then a debit in the ledger, and a replay of the
\* withdrawal has been answered
C23_Witness ==
    /\ Len(transactions) = 2
    /\ transactions[1].type = "credit" /\ transactions[2].type = "debit"
    /\ transactions[1].wallet_id = transactions[2].wallet_id
    /\ returned.op = "withdraw" /\ returned.replay /\ returned.status = "done"

-----------------------------------------------------------------------------
(* Replays and locks *)

\* the reference r has a committed ledger entry
InLedger(r) == \E i \in 1..Len(transactions) : transactions[i].reference = r

\* the reference r has a committed transfer record
InTransfers(r) == \E i \in 1..Len(transfers) : transfers[i].reference = r

\* C24: the replay of a fund, withdraw or transfer (a call whose reference
\* the operation's idempotency check finds committed) takes no wallet lock
\* and waits for none: whatever locks running transactions hold, also on the
\* replay's own wallet, the call can be made and is answered at once, leaving
\* the request slots and the locks in them as they were.  (No transfer record
\* is ever committed, see C5: the replays that occur are those of fund and
\* withdraw.)
C24_ReplayTakesNoLock ==
    [][\A p \in TwoProcs, u \in Registered, r \in Refs :
        /\ (Ready /\ FreeSlot(p) /\ NextReference(r) /\ InLedger(r)) =>
              /\ ENABLED FundCall(p, u, 4, r)
              /\ ENABLED WithdrawCall(p, u, 4, r)
        /\ (InLedger(r) /\ (FundCall(p, u, 4, r) \/ WithdrawCall(p, u, 4, r))) =>
              /\ proc' = proc
              /\ returned'.status = "done"
              /\ Committed' = Committed
        /\ \A v \in Registered :
              (InTransfers(r) /\ TransferCall(p, u, v, 4, r) /\ u # v) =>
                  proc' = proc /\ Committed' = Committed]_vars

\* a withdrawal has been answered although a running transfer holds the
\* locks of all wallets: it was a replay, on a locked wallet
C24_Witness ==
    /\ returned.op = "withdraw" /\ returned.status = "done"
    /\ \E p \in Procs : proc[p].op = "transfer" /\ proc[p].held = DOMAIN wallets

-----------------------------------------------------------------------------
(* Locks end with the transaction *)

\* C25: when a fund, withdraw or transfer returns, with a result or with
\* WalletNotFound, InsufficientFunds or a storage error, its transaction
\* holds no wallet lock any more: the locks it held are free in the state it
\* returns to, so a request waiting for one of them can take it; every lock
\* held belongs to a running transaction.
C25_NoLockAfterReturn ==
    [][/\ \A p \in Procs :
            Returns(p) =>
                /\ proc'[p].held = {}
                /\ \A u \in proc[p].held : \A q \in Procs : LockFree(q, u)'
       /\ \A p \in Procs : proc'[p].pc = "idle" => proc'[p].held = {}]_vars

\* a transfer that had locked a wallet has failed with InsufficientFunds; a
\* fund or withdraw that is at its SELECT ... FOR UPDATE finds its wallet free
C25_Witness ==
    /\ returned.op = "transfer" /\ returned.err = "InsufficientFunds"
    /\ \E p \in Procs : proc[p].pc = "lock" /\ LockFree(p, proc[p].userId)
    /\ \A q \in Procs : proc[q].held = {}

-----------------------------------------------------------------------------
(* Positive amounts *)

\* C26: every committed ledger entry and every committed transfer record has
\* amount_decimal > 0, also when the call's amount is positive but rounds to
\* "0.000000".  (No transfer record is ever committed, see C5.)
C26_AmountsPositive ==
    /\ \A i \in 1..Len(transactions) : transactions[i].amount_decimal > 0
    /\ \A i \in 1..Len(transfers) : transfers[i].amount_decimal > 0

\* a fund of 0.0000005, which passed the amount check and was rounded to
\* "0.000000", has been refused by the ledger's CHECK
C26_Witness ==
    /\ returned.op = "fund" /\ returned.amount = 1
    /\ returned.err = "ER_CHECK_CONSTRAINT_VIOLATED"
    /\ returned.inTransaction

-----------------------------------------------------------------------------
(* Amounts that are not finite *)

\* C27: fund, withdraw and transfer called with an amount that is not a
\* finite number (NaN, Infinity, -Infinity) fail with InvalidAmount in the
\* service itself, before any transaction is opened: no such call ever runs
\* in a transaction, and wallets, ledger, transfers and the running
\* transactions are as before the call.
C27_NonFiniteAmountRejected ==
    [][/\ \A p \in Procs : proc'[p].amount \notin NonFinite
       /\ (/\ returned' # returned /\ returned'.amount \in NonFinite
           /\ returned'.op \in {"fund", "withdraw", "transfer"}) =>
             /\ returned'.status = "failed" /\ returned'.err = "InvalidAmount"
             /\ ~returned'.inTransaction
             /\ Committed' = Committed /\ proc' = proc]_vars

\* a fund of NaN has passed the amount check, opened a transaction, locked
\* the wallet and failed on the insert of "NaN" into the ledger
C27_Witness ==
    /\ returned.op = "fund" /\ returned.amount = NaN
    /\ returned.inTransaction
    /\ returned.err = IncorrectDecimalValue
    /\ transactions = <<>>

-----------------------------------------------------------------------------
(* What a fund or withdraw returns *)

\* a fund or withdraw has returned a result
EntryReturned ==
    /\ returned.op \in {"fund", "withdraw"} /\ returned.status = "done"
    /\ returned.result.kind = "entry"

\* C28: whenever fund or withdraw returns a result, on a first invocation or
\* from the idempotency short-circuit, the returned ledger entry belongs to
\* the returned wallet (entry.wallet_id = wallet.id), for every user and
\* every reference, a reference that another user has used included.
C28_EntryBelongsToWallet ==
    EntryReturned => returned.result.transaction.wallet_id = returned.result.wallet.id

\* a fund of one user with the reference of another user's committed credit
\* has returned the caller's wallet together with the other user's entry
C28_Witness ==
    /\ EntryReturned /\ returned.op = "fund" /\ returned.replay
    /\ returned.result.wallet.user_id = returned.userId
    /\ returned.result.transaction.wallet_id # returned.userId
    /\ returned.result.transaction.type = "credit"


\* the kind of entry an operation writes
EntryKind(op) == IF op = "fund" THEN "credit" ELSE "debit"

\* C29: whenever fund returns a result the returned entry is a credit, and
\* whenever withdraw returns a result the returned entry is a debit, for
\* every reference, one that an operation of another kind has used included.
C29_EntryKindMatchesOperation ==
    EntryReturned => returned.result.transaction.type = EntryKind(returned.op)

\* a withdrawal with the reference of a committed credit of the same wallet
\* has returned that credit as its result
C29_Witness ==
    /\ EntryReturned /\ returned.op = "withdraw" /\ returned.replay
    /\ returned.result.transaction.type = "credit"
    /\ returned.result.transaction.wallet_id = returned.userId
    /\ wallets[returned.userId] = returned.result.transaction.balance_after

-----------------------------------------------------------------------------
(* A transfer with the reference of a credit or debit *)

\* slot p runs a transfer whose reference belongs to a committed credit or
\* debit entry and to no transfer record
TransferWithEntryReference(p) ==
    /\ proc[p].op = "transfer" /\ proc[p].pc # "idle"
    /\ InLedger(proc[p].reference) /\ ~InTransfers(proc[p].reference)
    /\ RowsByReference(transactions, proc[p].reference)[1].type \in {"credit", "debit"}

\* C30: a transfer called with a reference that belongs to a committed credit
\* or debit entry, and to no transfer record, commits nothing: no step of it
\* changes the wallets, the ledger or the transfers, and it ends in failure,
\* whether or not it gets as far as inserting its entries.
C30_TransferWithEntryReferenceCommitsNothing ==
    [][\A p \in Procs :
        (TransferWithEntryReference(p) /\ proc'[p] # proc[p]) =>
            /\ Committed' = Committed
            /\ Returns(p) => returned'.status = "failed"]_vars

\* a transfer between two wallets, with enough funds and the reference of a
\* committed credit, has staged its record, met the credit's reference in
\* the ledger and failed; no transfer record exists
C30_Witness ==
    /\ returned.op = "transfer" /\ returned.replay
    /\ returned.err = "ER_DUP_ENTRY" /\ returned.inTransaction
    /\ transfers = <<>>
    /\ InLedger(returned.reference)
    /\ RowsByReference(transactions, returned.reference)[1].type = "credit"
    /\ parseFloat(wallets[returned.userId]) >= returned.amount
====
